---- MODULE Spec2Model ----
(***************************************************************************)
(* A model of the client analytics dashboard: the MongoDB loader           *)
(* (data_loader.py) and the metric computations of the page script         *)
(* (app.py).  The loader is a step machine over its statements; every      *)
(* metric of the page is a pure function of the loaded snapshot, modelled  *)
(* as an operator and applied by the action of the statement computing it. *)
(***************************************************************************)
EXTENDS Integers, Sequences, FiniteSets, TLC

VARIABLES
    pc,                 \* position of the running script / function
    MONGO_URI, DB_NAME, \* os.getenv results (data_loader.py:15-16)
    client,             \* the MongoClient: "none", "open" or "closed"
    everOpened,         \* history: a MongoClient was constructed
    raised,             \* the exception that left the code, or "none"
    clients, memberships, transactions,   \* the three record sets
    merged_data,        \* app.py:27
    membership_status,  \* app.py:132-143
    retention_rate,     \* app.py:364-366
    pycountry_db,       \* the outcome of search_fuzzy for each name
    total_clients,      \* app.py:57
    country_counts,     \* app.py:190-191
    now,                \* pd.Timestamp.now(), as a day number or a date
    age_groups,         \* app.py:237-244
    days_until,         \* the value of days_until_birthday, app.py:277-285
    start_date, end_date,   \* the date inputs of app.py:329-332
    top_spenders,       \* app.py:344
    daily_transactions  \* app.py:452-453

vars == <<pc, MONGO_URI, DB_NAME, client, everOpened, raised,
          clients, memberships, transactions, merged_data,
          membership_status, retention_rate, pycountry_db, total_clients,
          country_counts, now, age_groups, days_until,
          start_date, end_date, top_spenders, daily_transactions>>

loaderVars == <<MONGO_URI, DB_NAME, client, everOpened>>
membershipVars == <<merged_data, membership_status, retention_rate>>
geoVars == <<pycountry_db, total_clients, country_counts>>
ageVars == <<now, age_groups>>
birthdayVars == <<days_until>>
topVars == <<start_date, end_date, top_spenders>>

----------------------------------------------------------------------------
(* Values shared by the sections.                                          *)

\* Python's None, pandas' NaN/NaT: the absent value.
None == "None"

\* A value not computed yet.
Pending == "pending"

RECURSIVE SeqsUpTo(_, _)
\* All sequences over S of length at most n.
SeqsUpTo(S, n) ==
    IF n = 0 THEN {<<>>}
    ELSE LET shorter == SeqsUpTo(S, n - 1)
         IN  shorter \cup {Append(s, x) : s \in {t \in shorter : Len(t) = n - 1}, x \in S}

\* The set of values of a column (Series.unique, without NaN).
Range(s) == {s[i] : i \in 1..Len(s)}

----------------------------------------------------------------------------
(* data_loader.py: load_data_from_mongodb, one action per statement.       *)

MaxDocId == 2
MaxDocs == 2

\* What os.getenv can give: None when the variable is unset, else a string.
EnvValues == {None, "", "set"}

\* What a collection's find() can give: a list of documents.
RecordSets == SeqsUpTo(1..MaxDocId, MaxDocs)

\* Python's truth value of an os.getenv result: None and "" are false.
Truthy(v) == v /= None /\ v /= ""

\* The mutant of ConfigMissing: only the unset variable is caught.
ConfigMissingOnlyNone == MONGO_URI = None \/ DB_NAME = None

\* data_loader.py:18: not MONGO_URI or not DB_NAME
ConfigMissing == ~Truthy(MONGO_URI) \/ ~Truthy(DB_NAME)

InitLoader ==
    /\ pc = "check"
    /\ MONGO_URI \in EnvValues
    /\ DB_NAME \in EnvValues
    /\ client = "none"
    /\ everOpened = FALSE
    /\ raised = "none"
    /\ clients = <<>>
    /\ memberships = <<>>
    /\ transactions = <<>>
    /\ merged_data = <<>>
    /\ membership_status = Pending
    /\ retention_rate = Pending
    /\ pycountry_db = <<>>
    /\ total_clients = Pending
    /\ country_counts = Pending
    /\ now = 0
    /\ age_groups = Pending
    /\ days_until = Pending
    /\ start_date = 0
    /\ end_date = 0
    /\ top_spenders = Pending
    /\ daily_transactions = Pending

\* What no statement of the loader touches.
LoaderFrame ==
    UNCHANGED <<MONGO_URI, DB_NAME, membershipVars, geoVars, ageVars,
                birthdayVars, topVars, daily_transactions>>

\* data_loader.py:36-37: the handler of the try block.  It raises
\* ConnectionError and does nothing else: the client is left as it is.
ExceptHandler ==
    /\ pc' = "raised"
    /\ raised' = "ConnectionError"
    /\ UNCHANGED <<client, everOpened, clients, memberships, transactions>>

\* data_loader.py:18-19: the configuration check, before the try block.
CheckConfig ==
    /\ pc = "check"
    /\ IF ConfigMissing
       THEN /\ pc' = "raised"
            /\ raised' = "ValueError"
       ELSE /\ pc' = "connect"
            /\ UNCHANGED raised
    /\ UNCHANGED <<client, everOpened, clients, memberships, transactions>>
    /\ LoaderFrame

\* data_loader.py:23: client = MongoClient(MONGO_URI); the constructor may
\* raise (a malformed URI), and then there is no client.
Connect ==
    /\ pc = "connect"
    /\ \/ /\ client' = "open"
          /\ everOpened' = TRUE
          /\ pc' = "select_db"
          /\ UNCHANGED <<raised, clients, memberships, transactions>>
       \/ ExceptHandler
    /\ LoaderFrame

\* data_loader.py:24: db = client[DB_NAME]; an invalid name raises.
SelectDb ==
    /\ pc = "select_db"
    /\ \/ /\ pc' = "fetch_clients"
          /\ UNCHANGED <<client, everOpened, raised, clients, memberships,
                         transactions>>
       \/ ExceptHandler
    /\ LoaderFrame

\* data_loader.py:27: clients = pd.DataFrame(list(db.clients.find()))
FetchClients ==
    /\ pc = "fetch_clients"
    /\ \/ /\ \E docs \in RecordSets : clients' = docs
          /\ pc' = "fetch_memberships"
          /\ UNCHANGED <<client, everOpened, raised, memberships, transactions>>
       \/ ExceptHandler
    /\ LoaderFrame

\* data_loader.py:28
FetchMemberships ==
    /\ pc = "fetch_memberships"
    /\ \/ /\ \E docs \in RecordSets : memberships' = docs
          /\ pc' = "fetch_transactions"
          /\ UNCHANGED <<client, everOpened, raised, clients, transactions>>
       \/ ExceptHandler
    /\ LoaderFrame

\* data_loader.py:29
FetchTransactions ==
    /\ pc = "fetch_transactions"
    /\ \/ /\ \E docs \in RecordSets : transactions' = docs
          /\ pc' = "close"
          /\ UNCHANGED <<client, everOpened, raised, clients, memberships>>
       \/ ExceptHandler
    /\ LoaderFrame

\* data_loader.py:32: client.close()
Close ==
    /\ pc = "close"
    /\ client' = "closed"
    /\ pc' = "return"
    /\ UNCHANGED <<everOpened, raised, clients, memberships, transactions>>
    /\ LoaderFrame

\* data_loader.py:34: return clients, memberships, transactions
Return ==
    /\ pc = "return"
    /\ pc' = "returned"
    /\ UNCHANGED <<client, everOpened, raised, clients, memberships,
                   transactions>>
    /\ LoaderFrame

NextLoader ==
    \/ CheckConfig
    \/ Connect
    \/ SelectDb
    \/ FetchClients
    \/ FetchMemberships
    \/ FetchTransactions
    \/ Close
    \/ Return

SpecLoader == InitLoader /\ [][NextLoader]_vars

\* The function has returned or raised.
LoaderFinished == pc \in {"returned", "raised"}

\* C1: on every path on which a MongoDB connection was opened, the
\* connection has been closed by the time the function returns or raises.
C1_ClosedOnEveryPath == (LoaderFinished /\ everOpened) => client = "closed"

\* C9: a missing or empty connection string or database name ends the
\* function with the configuration error (ValueError, not ConnectionError)
\* and no connection is ever opened; a connection is opened only after both
\* settings were found present.
C9_ConfigErrorBeforeConnect ==
    /\ (pc /= "check" /\ (~Truthy(MONGO_URI) \/ ~Truthy(DB_NAME)))
          => (pc = "raised" /\ raised = "ValueError" /\ ~everOpened
                /\ client = "none")
    /\ everOpened => (Truthy(MONGO_URI) /\ Truthy(DB_NAME))
    /\ (Truthy(MONGO_URI) /\ Truthy(DB_NAME)) => raised /= "ValueError"

\* C9's case: the check has rejected an empty (not unset) setting.
C9_Witness ==
    /\ pc = "raised"
    /\ raised = "ValueError"
    /\ (MONGO_URI = "" \/ DB_NAME = "")

----------------------------------------------------------------------------
(* app.py: the client and membership tables, the inner join of line 27,    *)
(* the membership classification of lines 132-143 and the retention rate   *)
(* of lines 364-366.                                                       *)

MaxClientId == 2
MaxMembershipId == 2
MaxMemberships == 2

ClientIds == 1..MaxClientId

Tiers == {"No Membership", "Gold"}
Statuses == {"ACTIVE", "EXPIRED"}

\* A row of the memberships collection.
MembershipRows ==
    [membership_id : 1..MaxMembershipId, client_id : ClientIds,
     tier : Tiers, status : Statuses]

RECURSIVE AscendingSeq(_)
\* The elements of a set of integers as a sequence, ascending.
AscendingSeq(S) ==
    IF S = {} THEN <<>>
    ELSE LET m == CHOOSE x \in S : \A y \in S : x <= y
         IN  <<m>> \o AscendingSeq(S \ {m})

\* The clients tables: one row per client, identifiers unique.
ClientTables ==
    {[i \in 1..Len(ids) |-> [client_id |-> ids[i]]] :
        ids \in {AscendingSeq(S) : S \in SUBSET ClientIds}}

RECURSIVE GCD(_, _)
GCD(a, b) == IF b = 0 THEN a ELSE GCD(b, a % b)

\* The number n / d, d > 0, in lowest terms.
Rational(n, d) == LET g == GCD(n, d) IN [num |-> n \div g, den |-> d \div g]

RECURSIVE FlattenRows(_)
\* The concatenation of a sequence of row lists.
FlattenRows(groups) ==
    IF groups = <<>> THEN <<>>
    ELSE Head(groups) \o FlattenRows(Tail(groups))

\* The rows of `right` with the client identifier id, in right's order.
Matches(right, id) == SelectSeq(right, LAMBDA r : r.client_id = id)

\* pd.merge(left, right, on='client_id', how='inner') for a left table of
\* clients: one row per (client, matching right row), in left's key order.
InnerMerge(left, right) ==
    FlattenRows([i \in 1..Len(left) |-> Matches(right, left[i].client_id)])

\* left.merge(right, on='client_id', how='left') for a left table of clients
\* and a right table of (client_id, tier): a client with no match keeps one
\* row, its tier null.
LeftMerge(left, right) ==
    FlattenRows([i \in 1..Len(left) |->
        LET m == Matches(right, left[i].client_id)
        IN  IF m = <<>>
            THEN <<[client_id |-> left[i].client_id, tier |-> None]>>
            ELSE [j \in 1..Len(m) |->
                    [client_id |-> m[j].client_id, tier |-> m[j].tier]]])

\* The mutant of DropDuplicates: the duplicates are kept.
KeepDuplicates(table) == table

\* df.drop_duplicates(subset='client_id'): the first row of each client.
DropDuplicates(table) ==
    LET firstOf(i) == \A j \in 1..(i - 1) : table[j].client_id /= table[i].client_id
        kept == {i \in 1..Len(table) : firstOf(i)}
        idx == AscendingSeq(kept)
    IN  [k \in 1..Len(idx) |-> table[idx[k]]]

\* app.py:139-143: np.where(tier == 'No Membership', ...); a null tier does
\* not equal the literal.
Classify(tier) ==
    IF tier = "No Membership" THEN "No Membership" ELSE "Has Membership"

\* app.py:132-143
MembershipStatusTable(cl, ms) ==
    LET joined == LeftMerge(cl, DropDuplicates(ms))
    IN  [i \in 1..Len(joined) |->
            [client_id |-> joined[i].client_id,
             tier |-> joined[i].tier,
             membership_status |-> Classify(joined[i].tier)]]

\* Series.nunique of the membership_id column.
NUniqueMembershipId(table) ==
    Cardinality({table[i].membership_id : i \in 1..Len(table)})

\* app.py:364: the ACTIVE rows of the joined table.
ActiveMemberships(merged) ==
    NUniqueMembershipId(SelectSeq(merged, LAMBDA r : r.status = "ACTIVE"))

\* app.py:365
TotalMemberships(ms) == NUniqueMembershipId(ms)

InitMembership ==
    /\ pc = "loaded"
    /\ clients \in ClientTables
    /\ memberships \in SeqsUpTo(MembershipRows, MaxMemberships)
    /\ transactions = <<[client_id |-> 1, date |-> 0, amount |-> 1]>>
    /\ MONGO_URI = "set"
    /\ DB_NAME = "set"
    /\ client = "closed"
    /\ everOpened = TRUE
    /\ raised = "none"
    /\ merged_data = <<>>
    /\ membership_status = Pending
    /\ retention_rate = Pending
    /\ pycountry_db = <<>>
    /\ total_clients = Pending
    /\ country_counts = Pending
    /\ now = 0
    /\ age_groups = Pending
    /\ days_until = Pending
    /\ start_date = 0
    /\ end_date = 0
    /\ top_spenders = Pending
    /\ daily_transactions = Pending

\* What the membership statements leave alone.
MembershipFrame ==
    UNCHANGED <<loaderVars, clients, memberships, transactions, geoVars,
                ageVars, birthdayVars, topVars, daily_transactions>>

\* app.py:16-24: the columns are converted in place.  A record set fetched
\* from an empty collection is a DataFrame without columns, and selecting a
\* column of it raises KeyError.
Normalize ==
    /\ pc = "loaded"
    /\ IF clients = <<>> \/ memberships = <<>> \/ transactions = <<>>
       THEN /\ pc' = "crashed"
            /\ raised' = "KeyError"
       ELSE /\ pc' = "normalized"
            /\ UNCHANGED raised
    /\ UNCHANGED membershipVars
    /\ MembershipFrame

\* app.py:27
MergeData ==
    /\ pc = "normalized"
    /\ merged_data' = InnerMerge(clients, memberships)
    /\ pc' = "membership_status"
    /\ UNCHANGED <<raised, membership_status, retention_rate>>
    /\ MembershipFrame

\* app.py:132-143
MembershipStatus ==
    /\ pc = "membership_status"
    /\ membership_status' = MembershipStatusTable(clients, memberships)
    /\ pc' = "retention"
    /\ UNCHANGED <<raised, merged_data, retention_rate>>
    /\ MembershipFrame

\* app.py:364-366: the division raises ZeroDivisionError on a zero total.
RetentionRate ==
    /\ pc = "retention"
    /\ LET active_memberships == ActiveMemberships(merged_data)
           total_memberships == TotalMemberships(memberships)
       IN  IF total_memberships = 0
           THEN /\ pc' = "crashed"
                /\ raised' = "ZeroDivisionError"
                /\ UNCHANGED retention_rate
           ELSE /\ retention_rate' =
                      Rational(active_memberships * 100, total_memberships)
                /\ pc' = "done"
                /\ UNCHANGED raised
    /\ UNCHANGED <<merged_data, membership_status>>
    /\ MembershipFrame

NextMembership ==
    \/ Normalize
    \/ MergeData
    \/ MembershipStatus
    \/ RetentionRate

SpecMembership == InitMembership /\ [][NextMembership]_vars

\* C2: with an empty memberships record set the render does not crash: no
\* exception leaves it.
C2_NoCrashOnZeroMemberships == (memberships = <<>>) => raised = "none"

\* C3: for non-empty clients and memberships the retention rate is the
\* number of distinct ACTIVE membership identifiers of the memberships
\* record set over its number of distinct membership identifiers, times 100.
C3_RetentionOverMemberships ==
    (pc = "done" /\ clients /= <<>> /\ memberships /= <<>>) =>
        retention_rate =
            Rational(100 * Cardinality({memberships[i].membership_id :
                             i \in {j \in 1..Len(memberships) :
                                      memberships[j].status = "ACTIVE"}}),
                     Cardinality({memberships[i].membership_id :
                             i \in 1..Len(memberships)}))

\* The tier of the first membership row of a client, null without one.
FirstTierOf(id) ==
    IF \E j \in 1..Len(memberships) : memberships[j].client_id = id
    THEN memberships[CHOOSE j \in 1..Len(memberships) :
                        /\ memberships[j].client_id = id
                        /\ \A k \in 1..(j - 1) : memberships[k].client_id /= id].tier
    ELSE None

\* C10: the classification has exactly one row per client, carrying the
\* tier of the client's first membership (null without one), and the row is
\* 'No Membership' exactly when that tier is the literal 'No Membership';
\* every other client, a client without any membership too, is
\* 'Has Membership'.
C10_OneRowPerClient ==
    (pc \in {"retention", "done"}) =>
        /\ Len(membership_status) = Len(clients)
        /\ \A i \in 1..Len(clients) :
              LET row == membership_status[i]
              IN  /\ row.client_id = clients[i].client_id
                  /\ row.tier = FirstTierOf(clients[i].client_id)
                  /\ row.membership_status \in {"No Membership", "Has Membership"}
                  /\ (row.membership_status = "No Membership")
                        <=> (FirstTierOf(clients[i].client_id) = "No Membership")
                  /\ (FirstTierOf(clients[i].client_id) = None)
                        => row.membership_status = "Has Membership"

\* C10's case: a client with two memberships of different tiers and a
\* client with none have been classified.
C10_Witness ==
    /\ pc \in {"retention", "done"}
    /\ \E i, j \in 1..Len(memberships) :
          /\ i < j
          /\ memberships[i].client_id = memberships[j].client_id
          /\ memberships[i].tier = "No Membership"
          /\ memberships[j].tier = "Gold"
          /\ \E c \in 1..Len(clients) :
                clients[c].client_id = memberships[i].client_id
    /\ \E c \in 1..Len(clients) : FirstTierOf(clients[c].client_id) = None

----------------------------------------------------------------------------
(* app.py: the country code of each client (lines 32-39), the Total        *)
(* Clients metric (line 57) and the country counts (lines 190-191).        *)

\* The nationality column: a recognised name, an unrecognised one, the
\* empty string, and a missing value.
Nationalities == {"France", "Atlantis", "", None}

CountryCodes == {"FRA", "USA"}

\* What pycountry.countries.search_fuzzy(name) can do: raise, or return
\* a list of countries (their alpha_3 codes).
SearchOutcomes ==
    {[error |-> e, results |-> <<>>] : e \in {"LookupError", "TypeError"}}
    \cup {[error |-> "none", results |-> r] :
            r \in {<<>>, <<"FRA">>, <<"USA">>, <<"USA", "FRA">>}}

\* app.py:34: search_fuzzy(country_name)[0].alpha_3, the body of the try.
\* Indexing an empty list raises IndexError.
SearchFirstAlpha3(country_name) ==
    LET o == pycountry_db[country_name]
    IN  IF o.error /= "none" THEN [error |-> o.error, value |-> None]
        ELSE IF o.results = <<>> THEN [error |-> "IndexError", value |-> None]
        ELSE [error |-> "none", value |-> o.results[1]]

\* The mutant of get_iso_alpha3: the handler catches LookupError only.
get_iso_alpha3_LookupErrorOnly(country_name) ==
    LET body == SearchFirstAlpha3(country_name)
    IN  IF body.error = "LookupError" THEN [error |-> "none", value |-> None]
        ELSE body

\* app.py:32-36: the bare except turns every exception into None.
get_iso_alpha3(country_name) ==
    LET body == SearchFirstAlpha3(country_name)
    IN  IF body.error /= "none" THEN [error |-> "none", value |-> None]
        ELSE body

\* The rows of the clients tables of this section.
GeoClients(ids, nat) ==
    [i \in 1..Len(ids) |-> [client_id |-> ids[i].client_id, nationality |-> nat[i]]]

\* Series.value_counts(): the number of rows of each value, nulls dropped.
ValueCounts(column) ==
    [v \in Range(column) \ {None} |->
        Cardinality({i \in 1..Len(column) : column[i] = v})]

InitGeo ==
    /\ pc = "loaded"
    /\ \E t \in ClientTables : \E nat \in [1..Len(t) -> Nationalities] :
          clients = GeoClients(t, nat)
    /\ pycountry_db \in [Nationalities -> SearchOutcomes]
    /\ memberships = <<[membership_id |-> 1, client_id |-> 1,
                        tier |-> "Gold", status |-> "ACTIVE"]>>
    /\ transactions = <<[client_id |-> 1, date |-> 0, amount |-> 1]>>
    /\ MONGO_URI = "set"
    /\ DB_NAME = "set"
    /\ client = "closed"
    /\ everOpened = TRUE
    /\ raised = "none"
    /\ merged_data = <<>>
    /\ membership_status = Pending
    /\ retention_rate = Pending
    /\ total_clients = Pending
    /\ country_counts = Pending
    /\ now = 0
    /\ age_groups = Pending
    /\ days_until = Pending
    /\ start_date = 0
    /\ end_date = 0
    /\ top_spenders = Pending
    /\ daily_transactions = Pending

\* What the statements of this section leave alone.
GeoFrame ==
    UNCHANGED <<loaderVars, memberships, transactions, membershipVars,
                pycountry_db, ageVars, birthdayVars, topVars,
                daily_transactions>>

\* app.py:39: clients['country_code'] = clients['nationality'].apply(...);
\* an exception leaving get_iso_alpha3 would leave the script.
AddCountryCodes ==
    /\ pc = "normalized"
    /\ LET looked == [i \in 1..Len(clients) |-> get_iso_alpha3(clients[i].nationality)]
           failed == {i \in 1..Len(clients) : looked[i].error /= "none"}
       IN  IF failed /= {}
           THEN /\ pc' = "crashed"
                /\ raised' = looked[CHOOSE i \in failed : \A j \in failed : i <= j].error
                /\ UNCHANGED clients
           ELSE /\ clients' = [i \in 1..Len(clients) |->
                                [client_id |-> clients[i].client_id,
                                 nationality |-> clients[i].nationality,
                                 country_code |-> looked[i].value]]
                /\ pc' = "geocoded"
                /\ UNCHANGED raised
    /\ UNCHANGED <<total_clients, country_counts>>
    /\ GeoFrame

\* app.py:57: clients['client_id'].nunique()
TotalClients ==
    /\ pc = "geocoded"
    /\ total_clients' = Cardinality({clients[i].client_id : i \in 1..Len(clients)})
    /\ pc' = "counted"
    /\ UNCHANGED <<raised, clients, country_counts>>
    /\ GeoFrame

\* app.py:190-191: clients['country_code'].value_counts().reset_index()
CountryCounts ==
    /\ pc = "counted"
    /\ country_counts' = ValueCounts([i \in 1..Len(clients) |-> clients[i].country_code])
    /\ pc' = "done"
    /\ UNCHANGED <<raised, clients, total_clients>>
    /\ GeoFrame

NextGeo ==
    \/ Normalize
    \/ AddCountryCodes
    \/ TotalClients
    \/ CountryCounts

SpecGeo == InitGeo /\ [][NextGeo]_vars

RECURSIVE SumCounts(_, _)
\* The sum of the counts of a count table over the keys in K.
SumCounts(counts, K) ==
    IF K = {} THEN 0
    ELSE LET k == CHOOSE x \in K : TRUE
         IN  counts[k] + SumCounts(counts, K \ {k})

\* The clients whose country code is resolved.
Resolved == {i \in 1..Len(clients) : clients[i].country_code /= None}

\* C8: get_iso_alpha3 never raises and gives an alpha-3 code or the absent
\* value, absent whenever the lookup raised; a client without a code is in
\* no row of country_counts and is counted in Total Clients, and the counts
\* of country_counts add up to the number of clients with a code.
C8_GeocodingNeverRaises ==
    /\ raised \in {"none", "KeyError"}
    /\ (raised = "KeyError") => (clients = <<>>)
    /\ (pc \in {"geocoded", "counted", "done"}) =>
          \A i \in 1..Len(clients) :
             /\ clients[i].country_code \in CountryCodes \cup {None}
             /\ (pycountry_db[clients[i].nationality].error /= "none")
                    => clients[i].country_code = None
    /\ (pc = "done") =>
          /\ total_clients = Len(clients)
          /\ None \notin DOMAIN country_counts
          /\ \A i \in Resolved : clients[i].country_code \in DOMAIN country_counts
          /\ SumCounts(country_counts, DOMAIN country_counts)
                = Cardinality(Resolved)

\* C8's case: the page has counted a client whose lookup raised beside a
\* client with a resolved code.
C8_Witness ==
    /\ pc = "done"
    /\ \E i, j \in 1..Len(clients) :
          /\ pycountry_db[clients[i].nationality].error = "TypeError"
          /\ clients[i].country_code = None
          /\ clients[j].country_code /= None

----------------------------------------------------------------------------
(* app.py:236-244: the age of each client and its age group.               *)

MaxAgeDays == 40000

\* The clients tables of this section: one client, born on a day between
\* MaxAgeDays days ago and today (a day number).
AgeClientTables(today) ==
    {<<[client_id |-> 1, birthdate |-> b]>> : b \in (today - MaxAgeDays)..today}

\* app.py:238: bins=[0, 18, 25, 35, 45, 55, 65, 100]
AgeBins == <<0, 18, 25, 35, 45, 55, 65, 100>>

\* app.py:239 and 242-244: the labels, which are the categories in order.
AgeLabels == <<"0-18", "19-25", "26-35", "36-45", "46-55", "56-65", "65+">>

\* app.py:236: (now - birthdate).dt.days // 365.25, a floor division.
Age(today, born) == ((today - born) * 4) \div 1461

\* app.py:237-239: pd.cut with its defaults (right=True,
\* include_lowest=False): the interval k is (bins[k], bins[k+1]], and a
\* value in no interval gets the null category.
Cut(age) ==
    IF \E k \in 1..Len(AgeLabels) : AgeBins[k] < age /\ age <= AgeBins[k + 1]
    THEN AgeLabels[CHOOSE k \in 1..Len(AgeLabels) :
                       AgeBins[k] < age /\ age <= AgeBins[k + 1]]
    ELSE None

InitAge ==
    /\ pc = "loaded"
    /\ now = MaxAgeDays
    /\ clients \in AgeClientTables(now)
    /\ memberships = <<[membership_id |-> 1, client_id |-> 1,
                        tier |-> "Gold", status |-> "ACTIVE"]>>
    /\ transactions = <<[client_id |-> 1, date |-> 0, amount |-> 1]>>
    /\ MONGO_URI = "set"
    /\ DB_NAME = "set"
    /\ client = "closed"
    /\ everOpened = TRUE
    /\ raised = "none"
    /\ merged_data = <<>>
    /\ membership_status = Pending
    /\ retention_rate = Pending
    /\ pycountry_db = <<>>
    /\ total_clients = Pending
    /\ country_counts = Pending
    /\ age_groups = Pending
    /\ days_until = Pending
    /\ start_date = 0
    /\ end_date = 0
    /\ top_spenders = Pending
    /\ daily_transactions = Pending

\* What the statements of this section leave alone.
AgeFrame ==
    UNCHANGED <<loaderVars, raised, memberships, transactions, membershipVars,
                geoVars, now, birthdayVars, topVars, daily_transactions>>

\* app.py:236
ComputeAge ==
    /\ pc = "normalized"
    /\ clients' = [i \in 1..Len(clients) |->
                      [client_id |-> clients[i].client_id,
                       birthdate |-> clients[i].birthdate,
                       age |-> Age(now, clients[i].birthdate)]]
    /\ pc' = "aged"
    /\ UNCHANGED age_groups
    /\ AgeFrame

\* app.py:237-244: pd.cut, then pd.Categorical over the same labels.
CutAgeGroups ==
    /\ pc = "aged"
    /\ age_groups' = [values |-> [i \in 1..Len(clients) |-> Cut(clients[i].age)],
                      categories |-> AgeLabels]
    /\ pc' = "done"
    /\ UNCHANGED clients
    /\ AgeFrame

NextAge ==
    \/ Normalize
    \/ ComputeAge
    \/ CutAgeGroups

SpecAge == InitAge /\ [][NextAge]_vars

\* C4: every non-negative age, 0 and the ages above 100 too, is assigned to
\* exactly one of the seven bins, and the display order of the bins is the
\* listed order.
C4_AgeBinsTotal ==
    (pc = "done") =>
        /\ \A i \in 1..Len(clients) :
              (clients[i].age >= 0) =>
                 Cardinality({k \in 1..Len(AgeLabels) :
                                 age_groups.values[i] = AgeLabels[k]}) = 1
        /\ age_groups.categories =
              <<"0-18", "19-25", "26-35", "36-45", "46-55", "56-65", "65+">>

----------------------------------------------------------------------------
(* app.py:277-288: days_until_birthday, over calendar dates.               *)

FirstYear == 2023
LastYear == 2025

\* The birthdates are taken in a leap year, so that 29 February is one.
BirthYears == {2000}

IsLeap(y) == (y % 4 = 0) /\ ((y % 100 /= 0) \/ (y % 400 = 0))

DaysInMonth(y, m) ==
    IF m = 2 THEN (IF IsLeap(y) THEN 29 ELSE 28)
    ELSE IF m \in {4, 6, 9, 11} THEN 30 ELSE 31

\* A date of the calendar.
ValidDate(d) ==
    /\ d.month \in 1..12
    /\ d.day \in 1..DaysInMonth(d.year, d.month)

\* The dates of a set of years.
DatesOf(years) ==
    {d \in [year : years, month : 1..12, day : 1..31] : ValidDate(d)}

RECURSIVE DaysBeforeMonth(_, _)
\* The days of year y before the first of month m.
DaysBeforeMonth(y, m) ==
    IF m = 1 THEN 0 ELSE DaysBeforeMonth(y, m - 1) + DaysInMonth(y, m - 1)

\* The days before 1 January of year y, from year 1.
DaysBeforeYear(y) ==
    (y - 1) * 365 + ((y - 1) \div 4) - ((y - 1) \div 100) + ((y - 1) \div 400)

\* The day number of a date: the difference of two day numbers is
\* (a - b).days of the two Timestamps.
Ordinal(d) == DaysBeforeYear(d.year) + DaysBeforeMonth(d.year, d.month) + d.day

\* Timestamp.replace(year=y): raises ValueError when the month and day do
\* not exist in year y.
ReplaceYear(d, y) ==
    LET r == [year |-> y, month |-> d.month, day |-> d.day]
    IN  IF ValidDate(r) THEN [error |-> "none", value |-> r]
        ELSE [error |-> "ValueError", value |-> d]

\* app.py:277-285
days_until_birthday(born, today) ==
    LET this_year == ReplaceYear(born, today.year)
    IN  IF this_year.error /= "none"
        THEN [error |-> this_year.error, value |-> 0]
        ELSE IF Ordinal(this_year.value) < Ordinal(today)
             THEN LET next_year == ReplaceYear(this_year.value, today.year + 1)
                  IN  IF next_year.error /= "none"
                      THEN [error |-> next_year.error, value |-> 0]
                      ELSE [error |-> "none",
                            value |-> Ordinal(next_year.value) - Ordinal(today)]
             ELSE [error |-> "none",
                   value |-> Ordinal(this_year.value) - Ordinal(today)]

InitBirthday ==
    /\ pc = "loaded"
    /\ now \in DatesOf(FirstYear..LastYear)
    /\ \E b \in DatesOf(BirthYears) : clients = <<[client_id |-> 1, birthdate |-> b]>>
    /\ memberships = <<[membership_id |-> 1, client_id |-> 1,
                        tier |-> "Gold", status |-> "ACTIVE"]>>
    /\ transactions = <<[client_id |-> 1, date |-> 0, amount |-> 1]>>
    /\ MONGO_URI = "set"
    /\ DB_NAME = "set"
    /\ client = "closed"
    /\ everOpened = TRUE
    /\ raised = "none"
    /\ merged_data = <<>>
    /\ membership_status = Pending
    /\ retention_rate = Pending
    /\ pycountry_db = <<>>
    /\ total_clients = Pending
    /\ country_counts = Pending
    /\ age_groups = Pending
    /\ days_until = Pending
    /\ start_date = 0
    /\ end_date = 0
    /\ top_spenders = Pending
    /\ daily_transactions = Pending

\* app.py:288: clients['birthdate'].apply(days_until_birthday); an
\* exception in the function leaves the script.
DaysUntilBirthday ==
    /\ pc = "normalized"
    /\ LET computed == [i \in 1..Len(clients) |->
                           days_until_birthday(clients[i].birthdate, now)]
           failed == {i \in 1..Len(clients) : computed[i].error /= "none"}
       IN  IF failed /= {}
           THEN /\ pc' = "crashed"
                /\ raised' = "ValueError"
                /\ UNCHANGED days_until
           ELSE /\ days_until' = [i \in 1..Len(clients) |-> computed[i].value]
                /\ pc' = "done"
                /\ UNCHANGED raised
    /\ UNCHANGED <<loaderVars, clients, memberships, transactions,
                   membershipVars, geoVars, ageVars, topVars,
                   daily_transactions>>

NextBirthday ==
    \/ Normalize
    \/ DaysUntilBirthday

SpecBirthday == InitBirthday /\ [][NextBirthday]_vars

\* The date is the month and day of the birthdate.
IsBirthday(born, d) == d.month = born.month /\ d.day = born.day

\* C5: for every birthdate, 29 February too, and every current date,
\* days_until_birthday is defined (nothing is raised), is never negative,
\* is 0 on the birthday and is 364 or 365 on the day after it.
C5_DaysUntilBirthdayDefined ==
    /\ raised = "none"
    /\ (pc = "done") =>
          \A i \in 1..Len(clients) :
             LET born == clients[i].birthdate
             IN  /\ days_until[i] >= 0
                 /\ IsBirthday(born, now) => days_until[i] = 0
                 /\ (\E y \in DatesOf({now.year}) :
                        /\ IsBirthday(born, y)
                        /\ Ordinal(now) = Ordinal(y) + 1)
                       => days_until[i] \in {364, 365}

----------------------------------------------------------------------------
(* app.py:329-344: the top spenders of a time window, and app.py:452-453:  *)
(* the daily totals.                                                       *)

MaxDay == 2
MaxAmount == 2
MaxTx == 3
MaxDailyTx == 3

\* app.py:344: nlargest(5, 'amount')
TopN == 5

Days == 1..MaxDay
Amounts == 1..MaxAmount

\* A transaction date after pd.to_datetime: a calendar day and whether the
\* time of day is midnight (0) or later (1).
Timestamps == [day : Days, time : {0, 1}]

\* pd.Timestamp(d) of a datetime.date d: midnight of that day.
Timestamp(d) == [day |-> d, time |-> 0]

\* a <= b for two Timestamps.
TimestampLE(a, b) == a.day < b.day \/ (a.day = b.day /\ a.time <= b.time)

\* The rows of the transactions collection for a set of client identifiers.
TransactionRows(ids) == [client_id : ids, date : Timestamps, amount : Amounts]

\* One midnight transaction for each of the clients 1..n.
WideTransactionTables(n) ==
    {[c \in 1..n |->
        [client_id |-> c, date |-> Timestamp(d[c]), amount |-> a[c]]] :
        d \in [1..n -> Days], a \in [1..n -> Amounts]}

\* The clients table with the identifiers 1..n.
ClientsUpTo(n) == [i \in 1..n |-> [client_id |-> i]]

RECURSIVE SumAmounts(_)
\* Series.sum of the amount column.
SumAmounts(rows) ==
    IF rows = <<>> THEN 0 ELSE Head(rows).amount + SumAmounts(Tail(rows))

\* app.py:335-338: the rows dated from pd.Timestamp(start) to
\* pd.Timestamp(end), both midnights.
FilterWindow(tx, start, end) ==
    SelectSeq(tx, LAMBDA r : /\ TimestampLE(Timestamp(start), r.date)
                             /\ TimestampLE(r.date, Timestamp(end)))

\* app.py:341: groupby('client_id')['amount'].sum().reset_index(): one row
\* per client identifier, ascending.
TotalSpent(tx) ==
    LET ids == AscendingSeq({tx[i].client_id : i \in 1..Len(tx)})
    IN  [k \in 1..Len(ids) |->
            [client_id |-> ids[k],
             amount |-> SumAmounts(SelectSeq(tx, LAMBDA r : r.client_id = ids[k]))]]

\* app.py:344: pd.merge(total_spent, clients, on='client_id'), an inner
\* join: one row per (total, client row of that identifier).
MergeWithClients(total, cl) ==
    FlattenRows([k \in 1..Len(total) |->
        LET m == SelectSeq(cl, LAMBDA c : c.client_id = total[k].client_id)
        IN  [j \in 1..Len(m) |-> total[k]]])

RECURSIVE NLargest(_, _)
\* DataFrame.nlargest(n, 'amount'): the n rows of greatest amount,
\* descending, rows of equal amount in their order in the table.
NLargest(n, table) ==
    IF n = 0 \/ table = <<>> THEN <<>>
    ELSE LET best == CHOOSE i \in 1..Len(table) :
                        /\ \A j \in 1..Len(table) : table[j].amount <= table[i].amount
                        /\ \A j \in 1..(i - 1) : table[j].amount < table[i].amount
             rest == [j \in 1..(Len(table) - 1) |->
                         IF j < best THEN table[j] ELSE table[j + 1]]
         IN  <<table[best]>> \o NLargest(n - 1, rest)

\* app.py:335-344
TopSpenders(tx, cl, start, end) ==
    NLargest(TopN, MergeWithClients(TotalSpent(FilterWindow(tx, start, end)), cl))

InitTop ==
    /\ pc = "loaded"
    /\ \/ /\ transactions \in SeqsUpTo(TransactionRows(ClientIds), MaxTx)
          /\ clients \in ClientTables
       \/ /\ transactions \in WideTransactionTables(TopN + 1)
          /\ clients = ClientsUpTo(TopN + 1)
    /\ start_date \in Days
    /\ end_date \in Days
    /\ now = 0
    /\ memberships = <<[membership_id |-> 1, client_id |-> 1,
                        tier |-> "Gold", status |-> "ACTIVE"]>>
    /\ MONGO_URI = "set"
    /\ DB_NAME = "set"
    /\ client = "closed"
    /\ everOpened = TRUE
    /\ raised = "none"
    /\ merged_data = <<>>
    /\ membership_status = Pending
    /\ retention_rate = Pending
    /\ pycountry_db = <<>>
    /\ total_clients = Pending
    /\ country_counts = Pending
    /\ age_groups = Pending
    /\ days_until = Pending
    /\ top_spenders = Pending
    /\ daily_transactions = Pending

\* app.py:335-344, with the window of the two date inputs.
TopSpendersTable ==
    /\ pc = "normalized"
    /\ top_spenders' = TopSpenders(transactions, clients, start_date, end_date)
    /\ pc' = "done"
    /\ UNCHANGED <<loaderVars, raised, clients, memberships, transactions,
                   membershipVars, geoVars, ageVars, birthdayVars,
                   start_date, end_date, daily_transactions>>

NextTop ==
    \/ Normalize
    \/ TopSpendersTable

SpecTop == InitTop /\ [][NextTop]_vars

\* The transactions dated on a day from start_date to end_date.
InWindow ==
    SelectSeq(transactions,
              LAMBDA r : start_date <= r.date.day /\ r.date.day <= end_date)

\* The clients with a transaction in the window, and the sum of a client.
WindowClients == {InWindow[i].client_id : i \in 1..Len(InWindow)}
WindowSum(c) == SumAmounts(SelectSeq(InWindow, LAMBDA r : r.client_id = c))

\* The smaller of two numbers.
Min(a, b) == IF a <= b THEN a ELSE b

\* C6: the top-spenders table has min(5, number of clients with a
\* transaction dated from start_date to end_date, end_date included) rows,
\* one per client, each with the client's sum over those transactions, in
\* descending order of the sum, and no client left out has a greater sum.
C6_TopSpendersOfWindow ==
    (pc = "done") =>
        /\ Len(top_spenders) = Min(TopN, Cardinality(WindowClients))
        /\ \A i \in 1..Len(top_spenders) :
              /\ top_spenders[i].client_id \in WindowClients
              /\ top_spenders[i].amount = WindowSum(top_spenders[i].client_id)
              /\ \A j \in (i + 1)..Len(top_spenders) :
                    /\ top_spenders[j].client_id /= top_spenders[i].client_id
                    /\ top_spenders[j].amount <= top_spenders[i].amount
        /\ \A c \in WindowClients :
              (\A i \in 1..Len(top_spenders) : top_spenders[i].client_id /= c)
                 => \A i \in 1..Len(top_spenders) :
                       WindowSum(c) <= top_spenders[i].amount

----------------------------------------------------------------------------
(* app.py:452-453: the daily totals.                                       *)

\* The mutant of DailyTotals: the rows are grouped by the whole date value,
\* time of day included, instead of its calendar date.
DailyTotalsByTimestamp(tx) ==
    LET keys == AscendingSeq({2 * tx[i].date.day + tx[i].date.time : i \in 1..Len(tx)})
    IN  [k \in 1..Len(keys) |->
            [date |-> keys[k] \div 2,
             total_amount |->
                SumAmounts(SelectSeq(tx, LAMBDA r :
                              2 * r.date.day + r.date.time = keys[k]))]]

\* app.py:452-453: groupby(transactions['date'].dt.date)['amount'].sum()
\* and reset_index(): one row per calendar date, the dates ascending.
DailyTotals(tx) ==
    LET dates == AscendingSeq({tx[i].date.day : i \in 1..Len(tx)})
    IN  [k \in 1..Len(dates) |->
            [date |-> dates[k],
             total_amount |->
                SumAmounts(SelectSeq(tx, LAMBDA r : r.date.day = dates[k]))]]

InitDaily ==
    /\ pc = "loaded"
    /\ transactions \in SeqsUpTo(TransactionRows({1}), MaxDailyTx)
    /\ clients = ClientsUpTo(1)
    /\ memberships = <<[membership_id |-> 1, client_id |-> 1,
                        tier |-> "Gold", status |-> "ACTIVE"]>>
    /\ start_date = 0
    /\ end_date = 0
    /\ now = 0
    /\ MONGO_URI = "set"
    /\ DB_NAME = "set"
    /\ client = "closed"
    /\ everOpened = TRUE
    /\ raised = "none"
    /\ merged_data = <<>>
    /\ membership_status = Pending
    /\ retention_rate = Pending
    /\ pycountry_db = <<>>
    /\ total_clients = Pending
    /\ country_counts = Pending
    /\ age_groups = Pending
    /\ days_until = Pending
    /\ top_spenders = Pending
    /\ daily_transactions = Pending

\* app.py:452-453
DailyTransactions ==
    /\ pc = "normalized"
    /\ daily_transactions' = DailyTotals(transactions)
    /\ pc' = "done"
    /\ UNCHANGED <<loaderVars, raised, clients, memberships, transactions,
                   membershipVars, geoVars, ageVars, birthdayVars, topVars>>

NextDaily ==
    \/ Normalize
    \/ DailyTransactions

SpecDaily == InitDaily /\ [][NextDaily]_vars

\* The transaction rows in the order given by a permutation of their places.
Reordered(tx, p) == [i \in 1..Len(tx) |-> tx[p[i]]]

\* C7: the daily total table has exactly one row per calendar date that
\* occurs in the transactions and no other row, the total of a row is the
\* sum of the amounts of the transactions of its date, and every
\* reordering of the transaction rows gives the same table.
C7_DailyTotals ==
    (pc = "done") =>
        /\ \A d \in Days :
              Cardinality({k \in 1..Len(daily_transactions) :
                              daily_transactions[k].date = d})
                 = IF \E i \in 1..Len(transactions) : transactions[i].date.day = d
                   THEN 1 ELSE 0
        /\ \A k \in 1..Len(daily_transactions) :
              /\ daily_transactions[k].date \in Days
              /\ daily_transactions[k].total_amount =
                    SumAmounts(SelectSeq(transactions, LAMBDA r :
                                  r.date.day = daily_transactions[k].date))
        /\ \A p \in Permutations(1..Len(transactions)) :
              DailyTotals(Reordered(transactions, p)) = daily_transactions

\* C7's case: two transactions of one date at different times of day were
\* summed into one row, and a date without transactions has no row.
C7_Witness ==
    /\ pc = "done"
    /\ Len(daily_transactions) = 1
    /\ daily_transactions[1].total_amount > MaxAmount
    /\ \E i, j \in 1..Len(transactions) :
          /\ transactions[i].date.day = transactions[j].date.day
          /\ transactions[i].date.time /= transactions[j].date.time
    /\ \E d \in Days : \A i \in 1..Len(transactions) : transactions[i].date.day /= d

====
